---- MODULE Spec2Model ----
(***************************************************************************)
(* Prompt Mover: moving and copying prompts between the host's presets.    *)
(*                                                                         *)
(* The repository holds two builds of the extension.  src/index.js is the  *)
(* slot-addressed build (a Move button, lists resolved from prompt_order); *)
(* src/unnamed/part_000 is the anchor-addressed build (Copy and Move       *)
(* buttons, lists taken from the prompts array, insert before/after an     *)
(* anchor).  The variable build says which of the two is loaded.           *)
(*                                                                         *)
(* Strings that the code takes apart or puts together (identifiers and     *)
(* display names) are sequences of one-character strings.                  *)
(***************************************************************************)
EXTENDS Integers, Sequences, FiniteSets, TLC

VARIABLES
    build,                      \* "index" (src/index.js) or "part_000"
    openai_settings,            \* host: preset name -> preset (canonical state)
    persisted,                  \* server: preset name -> preset last saved
    sourcePresetName,
    targetPresetName,
    sourceOrderedPrompts,       \* index.js
    targetOrderedPrompts,       \* index.js
    sourcePrompts,              \* part_000
    targetPrompts,              \* part_000
    selectedSourcePromptIndex,
    insertPosition,             \* index.js
    selectedTargetPromptIndex,  \* part_000
    insertMode,                 \* part_000
    container,                  \* the popup now displayed: 0 (none yet), 1, 2, ...
    renderedSource,             \* clickable items of its #pm-source-prompts
    renderedTarget,             \* clickable slots (items) of its #pm-target-prompts
    moveBtnDisabled,            \* #pm-btn-move of the displayed popup
    copyBtnDisabled,            \* #pm-btn-copy of the displayed popup (part_000)
    ops,                        \* performOperation calls suspended at an await
    nOps,                       \* performOperation calls that reached savePreset
    toast                       \* the last toastr notification

vars == << build, openai_settings, persisted, sourcePresetName, targetPresetName,
           sourceOrderedPrompts, targetOrderedPrompts, sourcePrompts, targetPrompts,
           selectedSourcePromptIndex, insertPosition, selectedTargetPromptIndex,
           insertMode, container, renderedSource, renderedTarget, moveBtnDisabled, copyBtnDisabled, ops, nOps, toast >>

----------------------------------------------------------------------------
(* Bounds of the model *)

\* calls the model follows: openPromptMoverPopup calls and performOperation
\* calls that get as far as their first savePreset, together
MaxCalls == 3

(* Program constants *)

GLOBAL_DUMMY_ID == 100001
\* the character_id of a character-specific prompt_order entry of the host
CHARACTER_ID == GLOBAL_DUMMY_ID - 1

----------------------------------------------------------------------------
(* Strings *)

Digits == {"0", "1", "2", "3", "4", "5", "6", "7", "8", "9"}
DigitOf == <<"0", "1", "2", "3", "4", "5", "6", "7", "8", "9">>

\* String(counter) of a template literal: the decimal digits of n >= 0
RECURSIVE Decimal(_)
Decimal(n) == IF n < 10 THEN << DigitOf[n + 1] >>
              ELSE Decimal(n \div 10) \o << DigitOf[(n % 10) + 1] >>

\* the number of digit characters s ends with
RECURSIVE TrailingDigits(_)
TrailingDigits(s) ==
    IF s = <<>> \/ s[Len(s)] \notin Digits THEN 0
    ELSE 1 + TrailingDigits(SubSeq(s, 1, Len(s) - 1))

\* identifier.replace(/_\d+$/, '')
StripSuffix(s) ==
    LET k == TrailingDigits(s)
    IN  IF k >= 1 /\ Len(s) > k /\ s[Len(s) - k] = "_"
        THEN SubSeq(s, 1, Len(s) - k - 1)
        ELSE s

\* `${baseName}_${counter}`
Suffixed(baseName, counter) == baseName \o <<"_">> \o Decimal(counter)

\* while (existingIds.includes(`${baseName}_${counter}`)) counter++
RECURSIVE ProbeCounter(_, _, _)
ProbeCounter(existingIds, baseName, counter) ==
    IF Suffixed(baseName, counter) \in existingIds
    THEN ProbeCounter(existingIds, baseName, counter + 1)
    ELSE counter

\* ` (${counter})`
NameSuffix(counter) == <<" ", "(">> \o Decimal(counter) \o <<")">>

----------------------------------------------------------------------------
(* Sequences as JavaScript arrays *)

Range(s) == { s[i] : i \in DOMAIN s }

Min(a, b) == IF a < b THEN a ELSE b

\* array.splice(start, 0, x) with start >= 0: start is clamped to the length
SpliceIn(s, start, x) ==
    LET at == Min(start, Len(s))
    IN  SubSeq(s, 1, at) \o << x >> \o SubSeq(s, at + 1, Len(s))

\* array.splice(start, 1) with start >= 0: nothing is removed past the end
SpliceOut(s, start) ==
    IF start >= Len(s) THEN s
    ELSE SubSeq(s, 1, start) \o SubSeq(s, start + 2, Len(s))

\* array.filter(pred), pred given as the set of elements that pass
RECURSIVE Filter(_, _)
Filter(s, keep) ==
    IF s = <<>> THEN <<>>
    ELSE (IF Head(s) \in keep THEN << Head(s) >> ELSE <<>>) \o Filter(Tail(s), keep)

\* array.findIndex(pred) as a 1-based position, 0 when there is none
FirstIndex(s, pass) ==
    IF \E i \in DOMAIN s : s[i] \in pass
    THEN CHOOSE i \in DOMAIN s : s[i] \in pass /\ \A j \in 1..(i - 1) : s[j] \notin pass
    ELSE 0

----------------------------------------------------------------------------
(* The host's data: presets, prompts, prompt_order                          *)
(* A field the JSON may lack carries a has-flag; JSON.parse(JSON.stringify) *)
(* keeps both the flag and the value, so a deep copy is the value itself.   *)

PresetNames == {"A", "B"}

Prompt(identifier, name, content) ==
    [identifier |-> identifier, name |-> name, content |-> content]

OrderRef(identifier, enabled) == [identifier |-> identifier, enabled |-> enabled]

OrderEntry(character_id, order) ==
    [character_id |-> character_id, hasOrder |-> TRUE, order |-> order]

Preset(prompts, prompt_order) ==
    [hasPrompts |-> TRUE, prompts |-> prompts,
     hasPromptOrder |-> TRUE, prompt_order |-> prompt_order]

\* preset.prompts || []
PromptsOf(preset) == IF preset.hasPrompts THEN preset.prompts ELSE <<>>

\* preset.prompt_order || []
PromptOrderOf(preset) == IF preset.hasPromptOrder THEN preset.prompt_order ELSE <<>>

\* entry.order || []
OrderOf(entry) == IF entry.hasOrder THEN entry.order ELSE <<>>

Identifiers(prompts) == { prompts[i].identifier : i \in DOMAIN prompts }

IsGlobal(entry) == entry.character_id = GLOBAL_DUMMY_ID

\* position of the first prompt_order entry of the global dummy character, or 0
GlobalEntryIndex(prompt_order) ==
    FirstIndex(prompt_order, { e \in Range(prompt_order) : IsGlobal(e) })

getPromptOrder(preset) ==
    LET po == PromptOrderOf(preset)
        g  == GlobalEntryIndex(po)
    IN  IF g = 0 THEN <<>> ELSE OrderOf(po[g])

\* position of the first prompt with that identifier, or 0
PromptIndex(prompts, identifier) ==
    FirstIndex(prompts, { p \in Range(prompts) : p.identifier = identifier })

\* Stub without the identifier for a name
StubUnnamed(identifier) == [identifier |-> identifier, name |-> <<>>]

\* the stub shown for an order reference without a prompt definition
Stub(identifier) == [identifier |-> identifier, name |-> identifier]

getOrderedPrompts(preset) ==
    LET order   == getPromptOrder(preset)
        prompts == PromptsOf(preset)
    IN  [ i \in DOMAIN order |->
            LET def == PromptIndex(prompts, order[i].identifier)
            IN  [identifier |-> order[i].identifier,
                 enabled    |-> order[i].enabled,
                 prompt     |-> IF def > 0 THEN prompts[def]
                                ELSE Stub(order[i].identifier)] ]

getPromptsFromPreset(preset) == PromptsOf(preset)

----------------------------------------------------------------------------
(* performOperation of src/index.js, its computations *)

\* the copy's identifier and name once checked against the target's identifiers
RenameOnCollision(promptDef, entryIdentifier, existingIds) ==
    IF promptDef.identifier \in existingIds
    THEN LET baseName == StripSuffix(promptDef.identifier)
             counter  == ProbeCounter(existingIds, baseName, 1)
         IN  [promptDef EXCEPT
                !.identifier = Suffixed(baseName, counter),
                !.name = (IF promptDef.name # <<>> THEN promptDef.name
                          ELSE entryIdentifier) \o NameSuffix(counter)]
    ELSE promptDef

\* the reference goes into the global order at insertPosition, or into a new
\* global entry, and at the end of every character-specific order
InsertIntoOrders(prompt_order, pos, ref) ==
    LET g   == GlobalEntryIndex(prompt_order)
        po1 == IF g > 0 /\ prompt_order[g].hasOrder
               THEN [prompt_order EXCEPT ![g].order = SpliceIn(@, pos, ref)]
               ELSE Append(prompt_order, OrderEntry(GLOBAL_DUMMY_ID, << ref >>))
    IN  [ i \in DOMAIN po1 |->
            IF ~IsGlobal(po1[i]) /\ po1[i].hasOrder
            THEN [po1[i] EXCEPT !.order = Append(@, ref)]
            ELSE po1[i] ]

\* targetPreset after the copy was pushed and referenced
InsertIntoTarget(preset, promptDef, pos) ==
    Preset(Append(PromptsOf(preset), promptDef),
           InsertIntoOrders(PromptOrderOf(preset), pos,
                            OrderRef(promptDef.identifier, TRUE)))

\* order.order = order.order.filter(o => o.identifier !== removedId), each entry
WithoutRefs(order, removedId) ==
    Filter(order, { o \in Range(order) : o.identifier # removedId })

RemoveFromOrders(preset, removedId) ==
    IF preset.hasPromptOrder
    THEN [preset EXCEPT !.prompt_order =
            [ i \in DOMAIN preset.prompt_order |->
                LET entry == preset.prompt_order[i]
                IN  IF entry.hasOrder
                    THEN [entry EXCEPT !.order = WithoutRefs(entry.order, removedId)]
                    ELSE entry ]]
    ELSE preset

\* sourcePreset after the prompt and its references were removed
\* (sourcePreset.prompts must exist: see SourceThrows)
RemoveFromSource(preset, removedId) ==
    LET promptIdx == PromptIndex(preset.prompts, removedId)
        spliced   == IF promptIdx > 0
                     THEN [preset EXCEPT !.prompts = SpliceOut(@, promptIdx - 1)]
                     ELSE preset
    IN  RemoveFromOrders(spliced, removedId)

\* sourcePreset.prompts.findIndex on a preset without prompts is a TypeError
SourceThrows(preset) == ~preset.hasPrompts

----------------------------------------------------------------------------
(* performOperation of src/unnamed/part_000, its computations *)

AnchorRenameOnCollision(promptToCopy, existingIds) ==
    IF promptToCopy.identifier \in existingIds
    THEN LET baseName == StripSuffix(promptToCopy.identifier)
             counter  == ProbeCounter(existingIds, baseName, 1)
         IN  [promptToCopy EXCEPT
                !.identifier = Suffixed(baseName, counter),
                !.name = promptToCopy.name \o NameSuffix(counter)]
    ELSE promptToCopy

\* insertMode === 'after' ? selectedTargetPromptIndex + 1 : selectedTargetPromptIndex
InsertPos(mode, anchor) == IF mode = "after" THEN anchor + 1 ELSE anchor

\* the copy goes into prompts at insertPos and its reference into every order
AnchorInsertIntoTarget(preset, promptToCopy, insertPos) ==
    LET ref == OrderRef(promptToCopy.identifier, TRUE)
        withPrompt == [preset EXCEPT
                         !.hasPrompts = TRUE,
                         !.prompts = SpliceIn(PromptsOf(preset), insertPos, promptToCopy)]
    IN  IF preset.hasPromptOrder
        THEN [withPrompt EXCEPT !.prompt_order =
                [ i \in DOMAIN preset.prompt_order |->
                    LET entry == preset.prompt_order[i]
                    IN  IF entry.hasOrder
                        THEN [entry EXCEPT !.order = SpliceIn(entry.order, insertPos, ref)]
                        ELSE entry ]]
        ELSE withPrompt

\* the prompt at the selected index is spliced out, removedId's references filtered
AnchorRemoveFromSource(preset, index, removedId) ==
    RemoveFromOrders([preset EXCEPT !.prompts = SpliceOut(@, index)], removedId)

\* sourcePrompts[selectedSourcePromptIndex].identifier without such an element,
\* or sourcePreset.prompts.splice on a preset without prompts, is a TypeError
AnchorSourceThrows(preset, list, index) ==
    index < 0 \/ index >= Len(list) \/ ~preset.hasPrompts

----------------------------------------------------------------------------
(* The host's presets when the extension is loaded *)

IdP == << "p" >>
IdZ == << "z" >>

\* preset A: one prompt; a global order that also holds a reference without a
\* prompt (z); a character-specific order
PresetA ==
    Preset(<< Prompt(IdP, << "F", "o", "o" >>, "c1") >>,
           << OrderEntry(GLOBAL_DUMMY_ID, << OrderRef(IdP, TRUE), OrderRef(IdZ, FALSE) >>),
              OrderEntry(CHARACTER_ID, << OrderRef(IdP, TRUE) >>) >>)

\* preset B: a prompt with A's identifier p and no prompt_order yet
PresetB ==
    [hasPrompts |-> TRUE, prompts |-> << Prompt(IdP, << "B", "a", "r" >>, "c3") >>,
     hasPromptOrder |-> FALSE, prompt_order |-> <<>>]

InitialSettings == [ name \in PresetNames |-> IF name = "A" THEN PresetA ELSE PresetB ]

Builds == {"index", "part_000"}

\* toastr.<kind>(<text>)
Toast(kind, text) == [kind |-> kind, text |-> text]

NoToast == Toast("none", "")

Init ==
    /\ build \in Builds
    /\ openai_settings = InitialSettings
    /\ persisted = InitialSettings
    /\ sourcePresetName = ""
    /\ targetPresetName = ""
    /\ sourceOrderedPrompts = <<>>
    /\ targetOrderedPrompts = <<>>
    /\ sourcePrompts = <<>>
    /\ targetPrompts = <<>>
    /\ selectedSourcePromptIndex = -1
    /\ insertPosition = -1
    /\ selectedTargetPromptIndex = -1
    /\ insertMode = "after"
    /\ container = 0
    /\ renderedSource = 0
    /\ renderedTarget = 0
    /\ moveBtnDisabled = TRUE
    /\ copyBtnDisabled = TRUE
    /\ ops = << >>
    /\ nOps = 0
    /\ toast = NoToast

----------------------------------------------------------------------------
(* Suspended performOperation calls *)

\* a call awaiting savePreset: pc is "target" (the first await) or "source"
\* (the second); source and target are sourceSettingIndex and
\* targetSettingIndex, each written as the preset name it indexes; container
\* is the popup the call was started from
Suspended(removeFromSource, source, target, selectedIdentifier, promptDef,
          saveName, savePayload, popup) ==
    [pc |-> "target", removeFromSource |-> removeFromSource,
     source |-> source, target |-> target,
     selectedIdentifier |-> selectedIdentifier, promptDef |-> promptDef,
     saveName |-> saveName, savePayload |-> savePayload, container |-> popup]

\* the server's copy after a successful save under that name
Saved(store, name, preset) ==
    [ n \in (DOMAIN store) \cup {name} |-> IF n = name THEN preset ELSE store[n] ]

Without(f, id) == [ i \in (DOMAIN f) \ {id} |-> f[i] ]

\* the options the user picks in the two selects (the placeholder option "" is
\* their value when the popup opens)
SelectOptions == PresetNames

\* whether another call may start
Budget == container + nOps < MaxCalls


----------------------------------------------------------------------------
(* src/index.js: the popup's handlers *)

\* CanMove without the test that the two presets differ
CanMoveWithinPreset(src, tgt, sel, pos) ==
    src # "" /\ tgt # "" /\ sel >= 0 /\ pos >= 0

CanMove(src, tgt, sel, pos) ==
    src # "" /\ tgt # "" /\ sel >= 0 /\ pos >= 0 /\ src # tgt

\* updateButtons(container) once the session state is as given
updateButtons(src, tgt, sel, pos) == ~CanMove(src, tgt, sel, pos)

openPromptMoverPopup ==
    /\ Budget
    /\ container' = container + 1
    /\ sourcePresetName' = ""
    /\ targetPresetName' = ""
    /\ sourceOrderedPrompts' = <<>>
    /\ targetOrderedPrompts' = <<>>
    /\ sourcePrompts' = <<>>
    /\ targetPrompts' = <<>>
    /\ selectedSourcePromptIndex' = -1
    /\ insertPosition' = -1
    /\ selectedTargetPromptIndex' = -1
    /\ insertMode' = "after"
    /\ renderedSource' = 0
    /\ renderedTarget' = 0
    /\ moveBtnDisabled' = TRUE
    /\ copyBtnDisabled' = TRUE
    /\ UNCHANGED << build, openai_settings, persisted, ops, nOps, toast >>

srcHandler(idx) ==
    /\ build = "index"
    /\ container > 0
    /\ idx \in 0..(renderedSource - 1)
    /\ selectedSourcePromptIndex' = idx
    /\ renderedSource' = Len(sourceOrderedPrompts)
    /\ moveBtnDisabled' =
          updateButtons(sourcePresetName, targetPresetName, idx, insertPosition)
    /\ UNCHANGED << build, openai_settings, persisted, sourcePresetName,
                    targetPresetName, sourceOrderedPrompts, targetOrderedPrompts,
                    sourcePrompts, targetPrompts, insertPosition,
                    selectedTargetPromptIndex, insertMode, container,
                    renderedTarget, copyBtnDisabled, ops, nOps, toast >>

slotHandler(slot) ==
    /\ build = "index"
    /\ container > 0
    /\ slot \in 0..(renderedTarget - 1)
    /\ insertPosition' = slot
    /\ renderedTarget' = Len(targetOrderedPrompts) + 1
    /\ moveBtnDisabled' =
          updateButtons(sourcePresetName, targetPresetName,
                        selectedSourcePromptIndex, slot)
    /\ UNCHANGED << build, openai_settings, persisted, sourcePresetName,
                    targetPresetName, sourceOrderedPrompts, targetOrderedPrompts,
                    sourcePrompts, targetPrompts, selectedSourcePromptIndex,
                    selectedTargetPromptIndex, insertMode, container,
                    renderedSource, copyBtnDisabled, ops, nOps, toast >>

sourcePresetChange(name) ==
    /\ build = "index"
    /\ container > 0
    /\ name \in SelectOptions \ {sourcePresetName}
    /\ sourcePresetName' = name
    /\ selectedSourcePromptIndex' = -1
    /\ sourceOrderedPrompts' =
          (IF name # "" THEN getOrderedPrompts(openai_settings[name]) ELSE <<>>)
    /\ renderedSource' = Len(sourceOrderedPrompts')
    /\ moveBtnDisabled' = updateButtons(name, targetPresetName, -1, insertPosition)
    /\ UNCHANGED << build, openai_settings, persisted, targetPresetName,
                    targetOrderedPrompts, sourcePrompts, targetPrompts,
                    insertPosition, selectedTargetPromptIndex, insertMode,
                    container, renderedTarget, copyBtnDisabled, ops, nOps, toast >>

targetPresetChange(name) ==
    /\ build = "index"
    /\ container > 0
    /\ name \in SelectOptions \ {targetPresetName}
    /\ targetPresetName' = name
    /\ insertPosition' = -1
    /\ targetOrderedPrompts' =
          (IF name # "" THEN getOrderedPrompts(openai_settings[name]) ELSE <<>>)
    /\ renderedTarget' = Len(targetOrderedPrompts') + 1
    /\ moveBtnDisabled' =
          updateButtons(sourcePresetName, name, selectedSourcePromptIndex, -1)
    /\ UNCHANGED << build, openai_settings, persisted, sourcePresetName,
                    sourceOrderedPrompts, sourcePrompts, targetPrompts,
                    selectedSourcePromptIndex, selectedTargetPromptIndex,
                    insertMode, container, renderedSource, copyBtnDisabled,
                    ops, nOps, toast >>

\* Rejected that also clears the target select
RejectedClearsTarget(text) ==
    /\ toast' = Toast("error", text)
    /\ targetPresetName' = ""
    /\ UNCHANGED << build, openai_settings, persisted, sourcePresetName,
                    sourceOrderedPrompts, targetOrderedPrompts,
                    sourcePrompts, targetPrompts, selectedSourcePromptIndex,
                    insertPosition, selectedTargetPromptIndex, insertMode,
                    container, renderedSource, renderedTarget, moveBtnDisabled,
                    copyBtnDisabled, ops, nOps >>

\* the frame of a performOperation call that returns after a toast
Rejected(text) ==
    /\ toast' = Toast("error", text)
    /\ UNCHANGED << build, openai_settings, persisted, sourcePresetName,
                    targetPresetName, sourceOrderedPrompts, targetOrderedPrompts,
                    sourcePrompts, targetPrompts, selectedSourcePromptIndex,
                    insertPosition, selectedTargetPromptIndex, insertMode,
                    container, renderedSource, renderedTarget, moveBtnDisabled,
                    copyBtnDisabled, ops, nOps >>

\* performOperation(container, removeFromSource) up to its first await
performOperation(removeFromSource) ==
    IF selectedSourcePromptIndex < 0 \/ insertPosition < 0
    THEN Rejected("select")
    ELSE IF sourcePresetName \notin PresetNames \/ targetPresetName \notin PresetNames
    THEN Rejected("preset")
    ELSE IF selectedSourcePromptIndex >= Len(sourceOrderedPrompts)
    THEN Rejected("entry")
    ELSE
        LET selectedEntry == sourceOrderedPrompts[selectedSourcePromptIndex + 1]
            target        == openai_settings[targetPresetName]
            promptDef     == RenameOnCollision(selectedEntry.prompt,
                                               selectedEntry.identifier,
                                               Identifiers(PromptsOf(target)))
            targetPreset  == InsertIntoTarget(target, promptDef, insertPosition)
        IN  /\ Budget
            /\ nOps' = nOps + 1
            /\ ops' = ops @@ ((nOps + 1) :>
                         Suspended(removeFromSource, sourcePresetName,
                                   targetPresetName, selectedEntry.identifier,
                                   promptDef, targetPresetName, targetPreset,
                                   container))
            /\ UNCHANGED << build, openai_settings, persisted, sourcePresetName,
                            targetPresetName, sourceOrderedPrompts,
                            targetOrderedPrompts, sourcePrompts, targetPrompts,
                            selectedSourcePromptIndex, insertPosition,
                            selectedTargetPromptIndex, insertMode, container,
                            renderedSource, renderedTarget, moveBtnDisabled,
                            copyBtnDisabled, toast >>

\* a click on #pm-btn-move of the displayed popup
ClickMove ==
    /\ build = "index"
    /\ container > 0
    /\ ~moveBtnDisabled
    /\ performOperation(TRUE)

\* "Refresh lists" and the renders that follow, after openai_settings became host
Refresh(op, host) ==
    /\ sourceOrderedPrompts' = getOrderedPrompts(host[op.source])
    /\ targetOrderedPrompts' = getOrderedPrompts(host[op.target])
    /\ selectedSourcePromptIndex' = -1
    /\ insertPosition' = -1
    /\ IF op.container = container
       THEN /\ renderedSource' = Len(sourceOrderedPrompts')
            /\ renderedTarget' = Len(targetOrderedPrompts') + 1
            /\ moveBtnDisabled' =
                  updateButtons(sourcePresetName, targetPresetName, -1, -1)
       ELSE UNCHANGED << renderedSource, renderedTarget, moveBtnDisabled >>
    /\ UNCHANGED << build, sourcePresetName, targetPresetName, sourcePrompts,
                    targetPrompts, selectedTargetPromptIndex, insertMode,
                    container, copyBtnDisabled, nOps >>

\* Caught that ends the call without telling the user
CaughtSilently(id) ==
    /\ ops' = Without(ops, id)
    /\ UNCHANGED << build, sourcePresetName, targetPresetName,
                    sourceOrderedPrompts, targetOrderedPrompts, sourcePrompts,
                    targetPrompts, selectedSourcePromptIndex, insertPosition,
                    selectedTargetPromptIndex, insertMode, container,
                    renderedSource, renderedTarget, moveBtnDisabled,
                    copyBtnDisabled, nOps, toast >>

\* the catch block: only the toast
Caught(id) ==
    /\ toast' = Toast("error", "failed")
    /\ ops' = Without(ops, id)
    /\ UNCHANGED << build, sourcePresetName, targetPresetName,
                    sourceOrderedPrompts, targetOrderedPrompts, sourcePrompts,
                    targetPrompts, selectedSourcePromptIndex, insertPosition,
                    selectedTargetPromptIndex, insertMode, container,
                    renderedSource, renderedTarget, moveBtnDisabled,
                    copyBtnDisabled, nOps >>

Succeeded(op, id, host) ==
    /\ toast' = Toast("success", IF op.removeFromSource THEN "moved" ELSE "copied")
    /\ ops' = Without(ops, id)
    /\ Refresh(op, host)

\* RemovesFromSource without the test of removeFromSource
RemovesFromSourceAlways(op) == sourcePresetName # targetPresetName

\* whether the call goes on to remove the prompt from the source
RemovesFromSource(op) ==
    op.removeFromSource /\ sourcePresetName # targetPresetName

\* savePreset(targetPresetName, targetPreset) resolved: the call resumes
TargetSaved(id) ==
    /\ build = "index"
    /\ id \in DOMAIN ops
    /\ ops[id].pc = "target"
    /\ LET op   == ops[id]
           host == [openai_settings EXCEPT ![op.target] = op.savePayload]
       IN  /\ persisted' = Saved(persisted, op.saveName, op.savePayload)
           /\ openai_settings' = host
           /\ IF RemovesFromSource(op)
              THEN IF SourceThrows(host[op.source])
                   THEN Caught(id)
                   ELSE /\ ops' = [ops EXCEPT ![id] =
                                    [op EXCEPT
                                       !.pc = "source",
                                       !.saveName = sourcePresetName,
                                       !.savePayload =
                                          RemoveFromSource(host[op.source],
                                                           op.selectedIdentifier)]]
                        /\ UNCHANGED << build, sourcePresetName, targetPresetName,
                                        sourceOrderedPrompts, targetOrderedPrompts,
                                        sourcePrompts, targetPrompts,
                                        selectedSourcePromptIndex, insertPosition,
                                        selectedTargetPromptIndex, insertMode,
                                        container, renderedSource, renderedTarget,
                                        moveBtnDisabled, copyBtnDisabled, nOps,
                                        toast >>
              ELSE Succeeded(op, id, host)

\* savePreset(sourcePresetName, sourcePreset) resolved
SourceSaved(id) ==
    /\ build = "index"
    /\ id \in DOMAIN ops
    /\ ops[id].pc = "source"
    /\ LET op   == ops[id]
           host == [openai_settings EXCEPT ![op.source] = op.savePayload]
       IN  /\ persisted' = Saved(persisted, op.saveName, op.savePayload)
           /\ openai_settings' = host
           /\ Succeeded(op, id, host)

\* SaveFailed with the first savePreset outside the try block's reach: a failed
\* target save is passed over and the call goes on to the source
SaveFailedGoesOn(id) ==
    /\ build = "index"
    /\ id \in DOMAIN ops
    /\ UNCHANGED << openai_settings, persisted >>
    /\ IF ops[id].pc = "target" /\ RemovesFromSource(ops[id])
          /\ ~SourceThrows(openai_settings[ops[id].source])
       THEN /\ ops' = [ops EXCEPT ![id] =
                        [ops[id] EXCEPT
                           !.pc = "source",
                           !.saveName = sourcePresetName,
                           !.savePayload =
                              RemoveFromSource(openai_settings[ops[id].source],
                                               ops[id].selectedIdentifier)]]
            /\ UNCHANGED << build, sourcePresetName, targetPresetName,
                            sourceOrderedPrompts, targetOrderedPrompts,
                            sourcePrompts, targetPrompts,
                            selectedSourcePromptIndex, insertPosition,
                            selectedTargetPromptIndex, insertMode, container,
                            renderedSource, renderedTarget, moveBtnDisabled,
                            copyBtnDisabled, nOps, toast >>
       ELSE Caught(id)

\* savePreset threw (the response was not ok), at either await
SaveFailed(id) ==
    /\ build = "index"
    /\ id \in DOMAIN ops
    /\ UNCHANGED << openai_settings, persisted >>
    /\ Caught(id)

----------------------------------------------------------------------------
(* src/unnamed/part_000: the popup's handlers *)

CanCopy(src, tgt, sel, anchor) ==
    src # "" /\ tgt # "" /\ sel >= 0 /\ anchor >= 0

\* updateButtons(container): the disabled flags of << #pm-btn-copy, #pm-btn-move >>
AnchorUpdateButtons(src, tgt, sel, anchor) ==
    << ~CanCopy(src, tgt, sel, anchor),
       ~(CanCopy(src, tgt, sel, anchor) /\ src # tgt) >>

AnchorSrcHandler(idx) ==
    /\ build = "part_000"
    /\ container > 0
    /\ idx \in 0..(renderedSource - 1)
    /\ selectedSourcePromptIndex' = idx
    /\ renderedSource' = Len(sourcePrompts)
    /\ LET disabled ==
          AnchorUpdateButtons(sourcePresetName, targetPresetName, idx,
                              selectedTargetPromptIndex)
       IN  copyBtnDisabled' = disabled[1] /\ moveBtnDisabled' = disabled[2]
    /\ UNCHANGED << build, openai_settings, persisted, sourcePresetName,
                    targetPresetName, sourceOrderedPrompts, targetOrderedPrompts,
                    sourcePrompts, targetPrompts, insertPosition,
                    selectedTargetPromptIndex, insertMode, container,
                    renderedTarget, ops, nOps, toast >>

AnchorTgtHandler(idx) ==
    /\ build = "part_000"
    /\ container > 0
    /\ idx \in 0..(renderedTarget - 1)
    /\ selectedTargetPromptIndex' = idx
    /\ renderedTarget' = Len(targetPrompts)
    /\ LET disabled ==
          AnchorUpdateButtons(sourcePresetName, targetPresetName,
                              selectedSourcePromptIndex, idx)
       IN  copyBtnDisabled' = disabled[1] /\ moveBtnDisabled' = disabled[2]
    /\ UNCHANGED << build, openai_settings, persisted, sourcePresetName,
                    targetPresetName, sourceOrderedPrompts, targetOrderedPrompts,
                    sourcePrompts, targetPrompts, selectedSourcePromptIndex,
                    insertPosition, insertMode, container, renderedSource,
                    ops, nOps, toast >>

AnchorSourcePresetChange(name) ==
    /\ build = "part_000"
    /\ container > 0
    /\ name \in SelectOptions \ {sourcePresetName}
    /\ sourcePresetName' = name
    /\ selectedSourcePromptIndex' = -1
    /\ sourcePrompts' =
          (IF name # "" THEN getPromptsFromPreset(openai_settings[name]) ELSE <<>>)
    /\ renderedSource' = Len(sourcePrompts')
    /\ LET disabled ==
          AnchorUpdateButtons(name, targetPresetName, -1, selectedTargetPromptIndex)
       IN  copyBtnDisabled' = disabled[1] /\ moveBtnDisabled' = disabled[2]
    /\ UNCHANGED << build, openai_settings, persisted, targetPresetName,
                    sourceOrderedPrompts, targetOrderedPrompts, targetPrompts,
                    insertPosition, selectedTargetPromptIndex, insertMode,
                    container, renderedTarget, ops, nOps, toast >>

AnchorTargetPresetChange(name) ==
    /\ build = "part_000"
    /\ container > 0
    /\ name \in SelectOptions \ {targetPresetName}
    /\ targetPresetName' = name
    /\ selectedTargetPromptIndex' = -1
    /\ targetPrompts' =
          (IF name # "" THEN getPromptsFromPreset(openai_settings[name]) ELSE <<>>)
    /\ renderedTarget' = Len(targetPrompts')
    /\ LET disabled ==
          AnchorUpdateButtons(sourcePresetName, name, selectedSourcePromptIndex, -1)
       IN  copyBtnDisabled' = disabled[1] /\ moveBtnDisabled' = disabled[2]
    /\ UNCHANGED << build, openai_settings, persisted, sourcePresetName,
                    sourceOrderedPrompts, targetOrderedPrompts, sourcePrompts,
                    selectedSourcePromptIndex, insertPosition, insertMode,
                    container, renderedSource, ops, nOps, toast >>

InsertModes == {"after", "before"}

insertModeChange(mode) ==
    /\ build = "part_000"
    /\ container > 0
    /\ mode \in InsertModes \ {insertMode}
    /\ insertMode' = mode
    /\ UNCHANGED << build, openai_settings, persisted, sourcePresetName,
                    targetPresetName, sourceOrderedPrompts, targetOrderedPrompts,
                    sourcePrompts, targetPrompts, selectedSourcePromptIndex,
                    insertPosition, selectedTargetPromptIndex, container,
                    renderedSource, renderedTarget, moveBtnDisabled,
                    copyBtnDisabled, ops, nOps, toast >>

\* JSON.parse(JSON.stringify(undefined)) throws before the try block: the call
\* ends in an unhandled rejection and nothing changes
Thrown == UNCHANGED vars

\* performOperation(container, removeFromSource) up to its first await
AnchorPerformOperation(removeFromSource) ==
    IF selectedSourcePromptIndex < 0 \/ selectedTargetPromptIndex < 0
    THEN Rejected("select")
    ELSE IF sourcePresetName \notin PresetNames \/ targetPresetName \notin PresetNames
    THEN Rejected("preset")
    ELSE IF selectedSourcePromptIndex >= Len(sourcePrompts)
    THEN Thrown
    ELSE
        LET selected     == sourcePrompts[selectedSourcePromptIndex + 1]
            promptToCopy == AnchorRenameOnCollision(selected, Identifiers(targetPrompts))
            insertPos    == InsertPos(insertMode, selectedTargetPromptIndex)
            targetPreset == AnchorInsertIntoTarget(openai_settings[targetPresetName],
                                                   promptToCopy, insertPos)
        IN  /\ Budget
            /\ nOps' = nOps + 1
            /\ ops' = ops @@ ((nOps + 1) :>
                         Suspended(removeFromSource, sourcePresetName,
                                   targetPresetName, selected.identifier,
                                   promptToCopy, targetPresetName, targetPreset,
                                   container))
            /\ UNCHANGED << build, openai_settings, persisted, sourcePresetName,
                            targetPresetName, sourceOrderedPrompts,
                            targetOrderedPrompts, sourcePrompts, targetPrompts,
                            selectedSourcePromptIndex, insertPosition,
                            selectedTargetPromptIndex, insertMode, container,
                            renderedSource, renderedTarget, moveBtnDisabled,
                            copyBtnDisabled, toast >>

\* a click on #pm-btn-copy of the displayed popup
AnchorClickCopy ==
    /\ build = "part_000"
    /\ container > 0
    /\ ~copyBtnDisabled
    /\ AnchorPerformOperation(FALSE)

\* a click on #pm-btn-move of the displayed popup
AnchorClickMove ==
    /\ build = "part_000"
    /\ container > 0
    /\ ~moveBtnDisabled
    /\ AnchorPerformOperation(TRUE)

\* "Refresh lists" and the renders that follow, after openai_settings became host
AnchorRefresh(op, host) ==
    /\ sourcePrompts' = getPromptsFromPreset(host[op.source])
    /\ targetPrompts' = getPromptsFromPreset(host[op.target])
    /\ selectedSourcePromptIndex' = -1
    /\ selectedTargetPromptIndex' = -1
    /\ IF op.container = container
       THEN /\ renderedSource' = Len(sourcePrompts')
            /\ renderedTarget' = Len(targetPrompts')
            /\ LET disabled ==
                  AnchorUpdateButtons(sourcePresetName, targetPresetName, -1, -1)
               IN  copyBtnDisabled' = disabled[1] /\ moveBtnDisabled' = disabled[2]
       ELSE UNCHANGED << renderedSource, renderedTarget, copyBtnDisabled,
                         moveBtnDisabled >>
    /\ UNCHANGED << build, sourcePresetName, targetPresetName,
                    sourceOrderedPrompts, targetOrderedPrompts, insertPosition,
                    insertMode, container, nOps >>

AnchorSucceeded(op, id, host) ==
    /\ toast' = Toast("success", IF op.removeFromSource THEN "moved" ELSE "copied")
    /\ ops' = Without(ops, id)
    /\ AnchorRefresh(op, host)

\* savePreset(targetPresetName, targetPreset) resolved: the call resumes
AnchorTargetSaved(id) ==
    /\ build = "part_000"
    /\ id \in DOMAIN ops
    /\ ops[id].pc = "target"
    /\ LET op   == ops[id]
           host == [openai_settings EXCEPT ![op.target] = op.savePayload]
       IN  /\ persisted' = Saved(persisted, op.saveName, op.savePayload)
           /\ openai_settings' = host
           /\ IF RemovesFromSource(op)
              THEN IF AnchorSourceThrows(host[op.source], sourcePrompts,
                                         selectedSourcePromptIndex)
                   THEN Caught(id)
                   ELSE /\ ops' = [ops EXCEPT ![id] =
                                    [op EXCEPT
                                       !.pc = "source",
                                       !.saveName = sourcePresetName,
                                       !.savePayload =
                                          AnchorRemoveFromSource(
                                             host[op.source],
                                             selectedSourcePromptIndex,
                                             sourcePrompts[selectedSourcePromptIndex + 1]
                                                .identifier)]]
                        /\ UNCHANGED << build, sourcePresetName, targetPresetName,
                                        sourceOrderedPrompts, targetOrderedPrompts,
                                        sourcePrompts, targetPrompts,
                                        selectedSourcePromptIndex, insertPosition,
                                        selectedTargetPromptIndex, insertMode,
                                        container, renderedSource, renderedTarget,
                                        moveBtnDisabled, copyBtnDisabled, nOps,
                                        toast >>
              ELSE AnchorSucceeded(op, id, host)

\* savePreset(sourcePresetName, sourcePreset) resolved
AnchorSourceSaved(id) ==
    /\ build = "part_000"
    /\ id \in DOMAIN ops
    /\ ops[id].pc = "source"
    /\ LET op   == ops[id]
           host == [openai_settings EXCEPT ![op.source] = op.savePayload]
       IN  /\ persisted' = Saved(persisted, op.saveName, op.savePayload)
           /\ openai_settings' = host
           /\ AnchorSucceeded(op, id, host)

\* savePreset threw (the response was not ok), at either await
AnchorSaveFailed(id) ==
    /\ build = "part_000"
    /\ id \in DOMAIN ops
    /\ UNCHANGED << openai_settings, persisted >>
    /\ Caught(id)

----------------------------------------------------------------------------
OpIds == 1..MaxCalls

\* no list grows beyond the longest initial list plus one entry per call
MaxList == 2 + MaxCalls

Next ==
    \/ openPromptMoverPopup
    \/ \E idx \in 0..MaxList : srcHandler(idx)
    \/ \E slot \in 0..MaxList : slotHandler(slot)
    \/ \E name \in SelectOptions : sourcePresetChange(name)
    \/ \E name \in SelectOptions : targetPresetChange(name)
    \/ ClickMove
    \/ \E id \in OpIds : TargetSaved(id)
    \/ \E id \in OpIds : SourceSaved(id)
    \/ \E id \in OpIds : SaveFailed(id)
    \/ \E idx \in 0..MaxList : AnchorSrcHandler(idx)
    \/ \E idx \in 0..MaxList : AnchorTgtHandler(idx)
    \/ \E name \in SelectOptions : AnchorSourcePresetChange(name)
    \/ \E name \in SelectOptions : AnchorTargetPresetChange(name)
    \/ \E mode \in InsertModes : insertModeChange(mode)
    \/ AnchorClickCopy
    \/ AnchorClickMove
    \/ \E id \in OpIds : AnchorTargetSaved(id)
    \/ \E id \in OpIds : AnchorSourceSaved(id)
    \/ \E id \in OpIds : AnchorSaveFailed(id)

Spec == Init /\ [][Next]_vars


----------------------------------------------------------------------------
(* Vocabulary of the properties *)

HasPrompt(preset, identifier) == identifier \in Identifiers(PromptsOf(preset))

UniqueIdentifiers(prompts) ==
    \A i, j \in DOMAIN prompts :
        prompts[i].identifier = prompts[j].identifier => i = j

\* the references to identifier in every order of the preset, counted
RefCount(preset, identifier) ==
    LET po == PromptOrderOf(preset)
    IN  Cardinality({ << i, j >> \in (DOMAIN po) \X (1..MaxList + 1) :
                        /\ j \in DOMAIN OrderOf(po[i])
                        /\ OrderOf(po[i])[j].identifier = identifier })

\* the calls that start in this step, and those that end in it
Starting == (DOMAIN ops') \ (DOMAIN ops)
Ending   == (DOMAIN ops) \ (DOMAIN ops')

UiState == << sourcePresetName, targetPresetName, sourceOrderedPrompts,
              targetOrderedPrompts, sourcePrompts, targetPrompts,
              selectedSourcePromptIndex, insertPosition,
              selectedTargetPromptIndex, insertMode >>

----------------------------------------------------------------------------
C2_HostOnlyAfterPersist ==
    [][ \A n \in PresetNames :
          openai_settings'[n] # openai_settings[n] =>
             \E id \in DOMAIN ops :
                /\ ops[id].saveName = n
                /\ ops[id].savePayload = openai_settings'[n]
                /\ persisted'[n] = openai_settings'[n] ]_vars

(* C3: when a move that was started from a source to a different target ends  *)
(* with its success notification, the source of the host holds neither the    *)
(* moved prompt nor any reference to it, in any order.                        *)
C3_MoveRemovesFromSource ==
    [][ \A id \in Ending :
          ( /\ ops[id].removeFromSource
            /\ ops[id].source # ops[id].target
            /\ toast'.kind = "success" )
          => /\ ~HasPrompt(openai_settings'[ops[id].source], ops[id].selectedIdentifier)
             /\ RefCount(openai_settings'[ops[id].source], ops[id].selectedIdentifier) = 0
      ]_vars

C5_SameCollectionMoveRejected ==
    /\ (container > 0 /\ sourcePresetName = targetPresetName) => moveBtnDisabled
    /\ \A id \in DOMAIN ops :
          ops[id].removeFromSource => ops[id].source # ops[id].target

\* both selects name the same preset and a prompt and a position are selected
C5_Witness ==
    /\ container > 0
    /\ sourcePresetName \in PresetNames
    /\ sourcePresetName = targetPresetName
    /\ selectedSourcePromptIndex >= 0
    /\ (insertPosition >= 0 \/ selectedTargetPromptIndex >= 0)
    /\ moveBtnDisabled

(* C6: a call saves the source only after its own save of the target has      *)
(* succeeded (the server and the host then hold the target it passed); a call *)
(* that ends at its first await, so also one whose target save failed, leaves *)
(* every other preset as it was, in the host and on the server.               *)
C6_TargetThenSource ==
    [][ /\ \A id \in DOMAIN ops' :
              ops'[id].pc = "source" =>
                 /\ id \in DOMAIN ops
                 /\ \/ ops[id] = ops'[id]
                    \/ /\ ops[id].pc = "target"
                       /\ persisted'[ops[id].saveName] = ops[id].savePayload
                       /\ openai_settings'[ops[id].target] = ops[id].savePayload
        /\ \A id \in Ending :
              ops[id].pc = "target" =>
                 \A n \in PresetNames \ {ops[id].target} :
                    /\ openai_settings'[n] = openai_settings[n]
                    /\ persisted'[n] = persisted[n] ]_vars

\* a call is awaiting its save of the source
C6_Witness == \E id \in DOMAIN ops : ops[id].pc = "source"

(* C7: no two savePreset calls for the same preset are in flight together.    *)
C7_OneSaveInFlightPerCollection ==
    \A i, j \in DOMAIN ops : i # j => ops[i].saveName # ops[j].saveName

(* C8: when the source save of a move fails after its target save succeeded,  *)
(* the prompt is in both presets of the host: the target holds the inserted   *)
(* copy, the source is unchanged (so are its references) and holds the        *)
(* original, and the notification is an error.                                *)
C8_FailedSourceSaveDuplicates ==
    [][ \A id \in Ending :
          (ops[id].pc = "source" /\ toast'.kind # "success") =>
             /\ toast'.kind = "error"
             /\ HasPrompt(openai_settings'[ops[id].target], ops[id].promptDef.identifier)
             /\ openai_settings'[ops[id].source] = openai_settings[ops[id].source]
             /\ HasPrompt(openai_settings'[ops[id].source], ops[id].selectedIdentifier)
      ]_vars

ValidationTexts == {"select", "preset", "entry"}

\* the conditions under which performOperation returns before any change
Invalid ==
    IF build = "index"
    THEN \/ selectedSourcePromptIndex < 0 \/ insertPosition < 0
         \/ sourcePresetName \notin PresetNames \/ targetPresetName \notin PresetNames
         \/ selectedSourcePromptIndex >= Len(sourceOrderedPrompts)
    ELSE \/ selectedSourcePromptIndex < 0 \/ selectedTargetPromptIndex < 0
         \/ sourcePresetName \notin PresetNames \/ targetPresetName \notin PresetNames
         \/ selectedSourcePromptIndex >= Len(sourcePrompts)

(* C9: with no source selection, no insert position, an unknown preset name   *)
(* or a selection without an entry, no call reaches savePreset; and the step  *)
(* that issues a validation notification changes nothing else: not the host's *)
(* presets, the server's, the session state or the suspended calls.           *)
C9_ValidationBeforeMutation ==
    [][ /\ Invalid => (DOMAIN ops' \subseteq DOMAIN ops /\ nOps' = nOps)
        /\ (toast' # toast /\ toast'.text \in ValidationTexts) =>
              UNCHANGED << openai_settings, persisted, UiState, ops, nOps >> ]_vars

\* a click on an enabled Move button was turned down for want of a selection
C9_Witness ==
    /\ toast = Toast("error", "select")
    /\ ~moveBtnDisabled
    /\ selectedSourcePromptIndex < 0

(* C10: a call is started only for a selected identifier that names a prompt  *)
(* of the source preset.                                                      *)
C10_SelectedNamesAnItem ==
    [][ \A id \in Starting :
          HasPrompt(openai_settings[ops'[id].source], ops'[id].selectedIdentifier)
      ]_vars

----------------------------------------------------------------------------
(* One call on a family of presets                                          *)
(* The host's presets are data the extension is handed: SpecCall draws them *)
(* from a family that has the cases the computations of performOperation    *)
(* tell apart, and follows one popup and one call on them.                  *)

Id1  == << "p", "1" >>
Id11 == << "p", "1", "_", "1" >>
Id12 == << "p", "1", "_", "2" >>

Foo == << "F", "o", "o" >>
Bar == << "B", "a", "r" >>

\* presets offered as A: a named prompt; a prompt whose name is empty; a prompt
\* whose identifier already ends in _<digits> beside a reference without a prompt
NamedSource ==
    Preset(<< Prompt(Id1, Foo, "c1") >>,
           << OrderEntry(GLOBAL_DUMMY_ID, << OrderRef(Id1, TRUE) >>) >>)

UnnamedSource ==
    Preset(<< Prompt(Id1, <<>>, "c1") >>,
           << OrderEntry(GLOBAL_DUMMY_ID, << OrderRef(Id1, TRUE) >>) >>)

SuffixedSource ==
    Preset(<< Prompt(Id11, Foo, "c1") >>,
           << OrderEntry(GLOBAL_DUMMY_ID, << OrderRef(Id11, FALSE), OrderRef(IdZ, TRUE) >>) >>)

SourcePresets == { NamedSource, UnnamedSource, SuffixedSource }

\* presets offered as B: the same identifier once; the identifier and its _1,
\* ordered otherwise than the prompts array, with a character-specific order;
\* no prompt_order; neither prompts nor prompt_order
SingleTarget ==
    Preset(<< Prompt(Id1, Bar, "c3") >>,
           << OrderEntry(GLOBAL_DUMMY_ID, << OrderRef(Id1, TRUE) >>) >>)

PairTarget ==
    Preset(<< Prompt(Id1, Bar, "c3"), Prompt(Id11, Bar, "c4") >>,
           << OrderEntry(GLOBAL_DUMMY_ID, << OrderRef(Id11, TRUE), OrderRef(Id1, TRUE) >>),
              OrderEntry(CHARACTER_ID, << OrderRef(Id1, TRUE), OrderRef(Id11, FALSE) >>) >>)

UnorderedTarget ==
    [hasPrompts |-> TRUE, prompts |-> << Prompt(Id11, Bar, "c3") >>,
     hasPromptOrder |-> FALSE, prompt_order |-> <<>>]

BareTarget ==
    [hasPrompts |-> FALSE, prompts |-> <<>>,
     hasPromptOrder |-> FALSE, prompt_order |-> <<>>]

TargetPresets == { SingleTarget, PairTarget, UnorderedTarget, BareTarget }

CallSettings ==
    { [ name \in PresetNames |-> IF name = "A" THEN s ELSE t ] :
        s \in SourcePresets, t \in TargetPresets }

\* the extension just loaded, whatever the host's presets are
Loaded ==
    /\ persisted = openai_settings
    /\ sourcePresetName = ""
    /\ targetPresetName = ""
    /\ sourceOrderedPrompts = <<>>
    /\ targetOrderedPrompts = <<>>
    /\ sourcePrompts = <<>>
    /\ targetPrompts = <<>>
    /\ selectedSourcePromptIndex = -1
    /\ insertPosition = -1
    /\ selectedTargetPromptIndex = -1
    /\ insertMode = "after"
    /\ container = 0
    /\ renderedSource = 0
    /\ renderedTarget = 0
    /\ moveBtnDisabled = TRUE
    /\ copyBtnDisabled = TRUE
    /\ ops = << >>
    /\ nOps = 0
    /\ toast = NoToast

InitCall ==
    /\ build \in Builds
    /\ openai_settings \in CallSettings
    /\ Loaded

\* popup openings and calls that SpecCall follows, together
CallBound == 2

\* the step stays within CallBound
Within == container' + nOps' <= CallBound

NextCall ==
    \/ openPromptMoverPopup /\ Within
    \/ \E idx \in 0..MaxList : srcHandler(idx) /\ Within
    \/ \E slot \in 0..MaxList : slotHandler(slot) /\ Within
    \/ \E name \in SelectOptions : sourcePresetChange(name) /\ Within
    \/ \E name \in SelectOptions : targetPresetChange(name) /\ Within
    \/ ClickMove /\ Within
    \/ \E id \in OpIds : TargetSaved(id) /\ Within
    \/ \E id \in OpIds : SourceSaved(id) /\ Within
    \/ \E id \in OpIds : SaveFailed(id) /\ Within
    \/ \E idx \in 0..MaxList : AnchorSrcHandler(idx) /\ Within
    \/ \E idx \in 0..MaxList : AnchorTgtHandler(idx) /\ Within
    \/ \E name \in SelectOptions : AnchorSourcePresetChange(name) /\ Within
    \/ \E name \in SelectOptions : AnchorTargetPresetChange(name) /\ Within
    \/ \E mode \in InsertModes : insertModeChange(mode) /\ Within
    \/ AnchorClickCopy /\ Within
    \/ AnchorClickMove /\ Within
    \/ \E id \in OpIds : AnchorTargetSaved(id) /\ Within
    \/ \E id \in OpIds : AnchorSourceSaved(id) /\ Within
    \/ \E id \in OpIds : AnchorSaveFailed(id) /\ Within

SpecCall == InitCall /\ [][NextCall]_vars

----------------------------------------------------------------------------
(* Every savePreset call is answered in the end: LiveSpec follows Spec's     *)
(* presets through one call and the popups opened before and during it,      *)
(* under the condition that a pending fetch is eventually answered.          *)

\* calls and popup openings that LiveSpec follows
LiveCalls == 1
LivePopups == 2

WithinLive == nOps' <= LiveCalls /\ container' <= LivePopups

\* the fetch of some suspended call is answered, ok or not
Resolve ==
    \E id \in OpIds :
       \/ TargetSaved(id) \/ SourceSaved(id) \/ SaveFailed(id)
       \/ AnchorTargetSaved(id) \/ AnchorSourceSaved(id) \/ AnchorSaveFailed(id)

NextLive ==
    \/ openPromptMoverPopup /\ WithinLive
    \/ \E idx \in 0..MaxList : srcHandler(idx) /\ WithinLive
    \/ \E slot \in 0..MaxList : slotHandler(slot) /\ WithinLive
    \/ \E name \in SelectOptions : sourcePresetChange(name) /\ WithinLive
    \/ \E name \in SelectOptions : targetPresetChange(name) /\ WithinLive
    \/ ClickMove /\ WithinLive
    \/ \E id \in OpIds : TargetSaved(id) /\ WithinLive
    \/ \E id \in OpIds : SourceSaved(id) /\ WithinLive
    \/ \E id \in OpIds : SaveFailed(id) /\ WithinLive
    \/ \E idx \in 0..MaxList : AnchorSrcHandler(idx) /\ WithinLive
    \/ \E idx \in 0..MaxList : AnchorTgtHandler(idx) /\ WithinLive
    \/ \E name \in SelectOptions : AnchorSourcePresetChange(name) /\ WithinLive
    \/ \E name \in SelectOptions : AnchorTargetPresetChange(name) /\ WithinLive
    \/ \E mode \in InsertModes : insertModeChange(mode) /\ WithinLive
    \/ AnchorClickCopy /\ WithinLive
    \/ AnchorClickMove /\ WithinLive
    \/ \E id \in OpIds : AnchorTargetSaved(id) /\ WithinLive
    \/ \E id \in OpIds : AnchorSourceSaved(id) /\ WithinLive
    \/ \E id \in OpIds : AnchorSaveFailed(id) /\ WithinLive

LiveSpec == Init /\ [][NextLive]_vars /\ WF_vars(NextLive /\ Resolve)

----------------------------------------------------------------------------
(* The slot-addressed build on a source and a target with one item each,     *)
(* followed as far as Spec follows its presets.                              *)

SlotSettings ==
    [ name \in PresetNames |-> IF name = "A" THEN NamedSource ELSE SingleTarget ]

InitSlots ==
    /\ build = "index"
    /\ openai_settings = SlotSettings
    /\ Loaded

NextSlots ==
    \/ openPromptMoverPopup
    \/ \E idx \in 0..MaxList : srcHandler(idx)
    \/ \E slot \in 0..MaxList : slotHandler(slot)
    \/ \E name \in SelectOptions : sourcePresetChange(name)
    \/ \E name \in SelectOptions : targetPresetChange(name)
    \/ ClickMove
    \/ \E id \in OpIds : TargetSaved(id)
    \/ \E id \in OpIds : SourceSaved(id)
    \/ \E id \in OpIds : SaveFailed(id)

SpecSlots == InitSlots /\ [][NextSlots]_vars

----------------------------------------------------------------------------
\* the identifier the copy of an item is to get in a target with these
\* identifiers: the item's own unless it is taken, else base_n for the least
\* n >= 1 not taken, base being the identifier without a trailing _<digits>
Disambiguated(identifier, existingIds) ==
    IF identifier \notin existingIds THEN identifier
    ELSE LET base == StripSuffix(identifier)
             free == { n \in 1..(Cardinality(existingIds) + 1) :
                          Suffixed(base, n) \notin existingIds }
         IN  Suffixed(base, CHOOSE n \in free : \A m \in free : n <= m)

(* C11: the identifier of the copy a call inserts is the selected item's own  *)
(* when the target's items do not hold it, and otherwise base_n for the least *)
(* n >= 1 such that base_n is not among the target's items.                   *)
C11_Disambiguation ==
    [][ \A id \in Starting :
          ops'[id].promptDef.identifier =
             Disambiguated(ops'[id].selectedIdentifier,
                           Identifiers(PromptsOf(openai_settings[ops'[id].target])))
      ]_vars

\* the item the user has selected in the source list, as the list shows it
SelectedPrompt ==
    IF build = "index"
    THEN sourceOrderedPrompts[selectedSourcePromptIndex + 1].prompt
    ELSE sourcePrompts[selectedSourcePromptIndex + 1]

\* the slot the call inserts at
Slot == IF build = "index" THEN insertPosition
        ELSE InsertPos(insertMode, selectedTargetPromptIndex)

\* the identifiers of a sequence of references, in order
RefIds(order) == [ i \in DOMAIN order |-> order[i].identifier ]

\* " (n)" in decimal
Parenthesised(n) == << " ", "(" >> \o Decimal(n) \o << ")" >>

Foo1 == Foo \o << " ", "(", "1", ")" >>

\* the end-to-end scenario: source item p1/Foo, target holding p1/Bar with the
\* global order [p1], slot 1
InScenario(id) ==
    /\ SelectedPrompt = Prompt(Id1, Foo, "c1")
    /\ openai_settings[ops'[id].target] = SingleTarget
    /\ Slot = 1

ScenarioResult(target) ==
    /\ Len(PromptsOf(target)) = 2
    /\ \E i \in DOMAIN PromptsOf(target) :
          PromptsOf(target)[i] = Prompt(Id11, Foo1, "c1")
    /\ RefIds(getPromptOrder(target)) = << Id1, Id11 >>

(* C12 as stated: when the identifier collides, the name of the copy is the   *)
(* selected item's name followed by " (n)", n being the counter of the new    *)
(* identifier; and in the scenario the updated target has two items, the new  *)
(* one p1_1 named "Foo (1)", and the global order [p1, p1_1].                 *)
C12_NameSuffixed ==
    [][ \A id \in Starting :
          LET new == ops'[id].promptDef
          IN  /\ new.identifier # SelectedPrompt.identifier =>
                   \E n \in 1..MaxList :
                      /\ new.identifier =
                            Suffixed(StripSuffix(SelectedPrompt.identifier), n)
                      /\ new.name = SelectedPrompt.name \o Parenthesised(n)
              /\ InScenario(id) => ScenarioResult(ops'[id].savePayload)
      ]_vars

(* C13: in the slot-addressed build a call starts only with a slot k in       *)
(* [0, L], L being the length of the target's global order, and the order it  *)
(* saves has the new reference {identifier, enabled: true} at index k, the    *)
(* references that were there following in their former order around it.      *)
C13_InsertionPosition ==
    [][ \A id \in Starting :
          build = "index" =>
             LET old == getPromptOrder(openai_settings[ops'[id].target])
                 new == getPromptOrder(ops'[id].savePayload)
                 k   == insertPosition
             IN  /\ k \in 0..Len(old)
                 /\ Len(new) = Len(old) + 1
                 /\ new[k + 1] = OrderRef(ops'[id].promptDef.identifier, TRUE)
                 /\ SpliceOut(new, k) = old
      ]_vars

(* C14: the target a call saves has, in every order other than the global     *)
(* one, the new reference appended at the end, after the references that were *)
(* there, which keep their order.                                             *)
C14_OtherScopesAppend ==
    [][ \A id \in Starting :
          LET old == PromptOrderOf(openai_settings[ops'[id].target])
              new == PromptOrderOf(ops'[id].savePayload)
              ref == OrderRef(ops'[id].promptDef.identifier, TRUE)
          IN  \A i \in DOMAIN old :
                 (~IsGlobal(old[i]) /\ old[i].hasOrder) =>
                    /\ i \in DOMAIN new
                    /\ new[i].order = Append(old[i].order, ref)
      ]_vars

\* the identifiers referenced in any order of the preset
Referenced(preset) ==
    { identifier \in UNION { { OrderOf(e)[j].identifier : j \in DOMAIN OrderOf(e) } :
                               e \in Range(PromptOrderOf(preset)) } : TRUE }

(* C15: whenever the host's entry of a preset changes, every reference of the *)
(* new entry that the old entry did not have resolves to a prompt of the new  *)
(* entry, and so does every reference that resolved in the old entry.         *)
C15_NoDanglingIntroduced ==
    [][ \A n \in PresetNames :
          \A identifier \in Referenced(openai_settings'[n]) :
             ( \/ identifier \notin Referenced(openai_settings[n])
               \/ HasPrompt(openai_settings[n], identifier) )
             => HasPrompt(openai_settings'[n], identifier)
      ]_vars

\* the order sequence of the preset's global scope: that of its first
\* prompt_order entry for the global dummy character, empty without one
GlobalScope(preset) ==
    LET po == PromptOrderOf(preset)
        gs == { i \in DOMAIN po : po[i].character_id = GLOBAL_DUMMY_ID }
    IN  IF gs = {} THEN <<>>
        ELSE OrderOf(po[CHOOSE i \in gs : \A j \in gs : i <= j])

\* view is the ordered view of the preset: one entry per reference of the
\* global scope, in order, with the reference's identifier and enabled flag and
\* the item of that identifier, or the stub {identifier, name: identifier}
IsView(view, preset) ==
    LET order == GlobalScope(preset)
    IN  /\ Len(view) = Len(order)
        /\ \A i \in DOMAIN order :
              /\ view[i].identifier = order[i].identifier
              /\ view[i].enabled = order[i].enabled
              /\ IF HasPrompt(preset, order[i].identifier)
                 THEN /\ view[i].prompt \in Range(PromptsOf(preset))
                      /\ view[i].prompt.identifier = order[i].identifier
                 ELSE view[i].prompt = [identifier |-> order[i].identifier,
                                        name |-> order[i].identifier]

(* C16: in the slot-addressed build, the list a select change computes is the *)
(* ordered view of the preset chosen, and every list the program computes is  *)
(* the ordered view of a preset of the host (empty for a preset without       *)
(* prompt_order, without a global scope or without references); computing it  *)
(* for a select change leaves the host's presets unchanged.                   *)
C16_ResolverView ==
    [][ build = "index" =>
          /\ sourceOrderedPrompts' # sourceOrderedPrompts =>
                \/ sourceOrderedPrompts' = <<>>
                \/ \E n \in PresetNames :
                      IsView(sourceOrderedPrompts', openai_settings'[n])
          /\ targetOrderedPrompts' # targetOrderedPrompts =>
                \/ targetOrderedPrompts' = <<>>
                \/ \E n \in PresetNames :
                      IsView(targetOrderedPrompts', openai_settings'[n])
          /\ (sourcePresetName' # sourcePresetName /\ sourcePresetName' \in PresetNames) =>
                IsView(sourceOrderedPrompts', openai_settings[sourcePresetName'])
          /\ (targetPresetName' # targetPresetName /\ targetPresetName' \in PresetNames) =>
                IsView(targetOrderedPrompts', openai_settings[targetPresetName'])
          /\ (sourcePresetName' # sourcePresetName \/ targetPresetName' # targetPresetName) =>
                UNCHANGED openai_settings
      ]_vars

\* the source list shows an item and the stub of a reference without an item;
\* the target list is that of a preset with neither prompts nor prompt_order
C16_Witness ==
    /\ build = "index"
    /\ sourcePresetName = "A"
    /\ Len(sourceOrderedPrompts) = 2
    /\ sourceOrderedPrompts[1].prompt = Prompt(Id11, Foo, "c1")
    /\ ~sourceOrderedPrompts[1].enabled
    /\ sourceOrderedPrompts[2].prompt = [identifier |-> IdZ, name |-> IdZ]
    /\ targetPresetName = "B"
    /\ openai_settings["B"] = BareTarget
    /\ targetOrderedPrompts = <<>>

(* C17: the item a call inserts has the fields of the selected item, each     *)
(* with the selected item's value except identifier and name; when the        *)
(* target's items do not hold the selected item's identifier, it is equal to  *)
(* the selected item; and it is the one item the saved target has more.       *)
C17_OpaqueFieldsPreserved ==
    [][ \A id \in Starting :
          LET new    == ops'[id].promptDef
              before == PromptsOf(openai_settings[ops'[id].target])
              after  == PromptsOf(ops'[id].savePayload)
          IN  /\ DOMAIN new = DOMAIN SelectedPrompt
              /\ \A f \in (DOMAIN new) \ {"identifier", "name"} :
                    new[f] = SelectedPrompt[f]
              /\ SelectedPrompt.identifier \notin Identifiers(before) =>
                    new = SelectedPrompt
              /\ Len(after) = Len(before) + 1
              /\ \E i \in DOMAIN after :
                    after[i] = new /\ SpliceOut(after, i - 1) = before
      ]_vars

Outcomes == { Toast("success", "moved"), Toast("success", "copied"),
              Toast("error", "failed") }

(* C18: every call that has begun persisting ends, whatever the user does in  *)
(* the meantime; the step in which it ends issues one notification, of        *)
(* success or of failure, and is a step of that call alone, not a selection,  *)
(* a preset change or the opening of a popup.                                 *)
C18_EndsInOneOutcome ==
    /\ [][ Ending # {} =>
             /\ Cardinality(Ending) = 1
             /\ Starting = {}
             /\ toast' \in Outcomes
             /\ container' = container
             /\ sourcePresetName' = sourcePresetName
             /\ targetPresetName' = targetPresetName ]_vars
    /\ \A id \in OpIds : (id \in DOMAIN ops) ~> (id \notin DOMAIN ops)

\* a call is still awaiting its first save in a popup opened after the one it
\* was started from, the selects changed since
C18_Witness ==
    \E id \in DOMAIN ops :
       /\ ops[id].pc = "target"
       /\ ops[id].container < container
       /\ sourcePresetName \in PresetNames
       /\ sourcePresetName # ops[id].source

(* C19: one call saves each preset at most once, so at most twice: the save   *)
(* it issues after the target's is under another name and is its last; and a *)
(* call that ends in the failure notification issues no save in that step,   *)
(* nor does any other call begin.                                             *)
C19_SavedOncePerCollection ==
    [][ /\ \A id \in DOMAIN ops \cap DOMAIN ops' :
              /\ ops[id].pc = "target" /\ ops'[id].pc = "source"
                    => ops'[id].saveName # ops[id].saveName
              /\ ops[id].pc = "source" => ops'[id] = ops[id]
        /\ \A id \in Ending :
              toast' = Toast("error", "failed") => Starting = {}
      ]_vars

(* C20: in the anchor-addressed build, when the target list on screen is the  *)
(* target's and the chosen anchor is referenced in the target's order         *)
(* sequence, the saved sequence holds the new reference immediately after     *)
(* the anchor's reference in mode 'after', immediately before it in mode      *)
(* 'before'.                                                                  *)
C20_AnchorAddressing ==
    [][ \A id \in Starting :
          LET tgt    == openai_settings[ops'[id].target]
              anchor == targetPrompts[selectedTargetPromptIndex + 1].identifier
              new    == getPromptOrder(ops'[id].savePayload)
              newId  == ops'[id].promptDef.identifier
          IN  ( /\ build = "part_000"
                /\ targetPrompts = tgt.prompts
                /\ \E i \in DOMAIN getPromptOrder(tgt) :
                      getPromptOrder(tgt)[i].identifier = anchor )
              => \E i \in 1..Len(new), j \in 1..Len(new) :
                    /\ new[i].identifier = anchor
                    /\ new[j].identifier = newId
                    /\ j = IF insertMode = "after" THEN i + 1 ELSE i - 1
      ]_vars

\* the positions of the global scope's entries in a preset's prompt_order
GlobalEntries(preset) ==
    { i \in DOMAIN PromptOrderOf(preset) : IsGlobal(PromptOrderOf(preset)[i]) }

\* how often the identifier is referenced in a sequence of references
Occurrences(order, identifier) ==
    Cardinality({ j \in DOMAIN order : order[j].identifier = identifier })

(* C21: in the slot-addressed build, the target a call saves has exactly one  *)
(* entry of the global scope and that entry references the new item exactly   *)
(* once; and when the target had no entry of the global scope, the one saved  *)
(* holds the new reference only.                                              *)
C21_GlobalScopeCreated ==
    [][ \A id \in Starting :
          build = "index" =>
             LET old   == openai_settings[ops'[id].target]
                 new   == ops'[id].savePayload
                 newId == ops'[id].promptDef.identifier
             IN  /\ Cardinality(GlobalEntries(new)) = 1
                 /\ Occurrences(GlobalScope(new), newId) = 1
                 /\ GlobalEntries(old) = {} =>
                       GlobalScope(new) = << OrderRef(newId, TRUE) >>
      ]_vars

(* C22: in the slot-addressed build, while the popup is open and no source    *)
(* entry or no slot is selected, the move button is disabled and no call      *)
(* starts; and a selected target whose ordered view is empty is drawn with    *)
(* one slot, slot 0.                                                          *)
C22_EmptyDisablesMove ==
    /\ [](build = "index" /\ container > 0 =>
            /\ (selectedSourcePromptIndex < 0 \/ insertPosition < 0)
                  => moveBtnDisabled
            /\ (targetPresetName # "" /\ targetOrderedPrompts = <<>>)
                  => renderedTarget = 1)
    /\ [][ (build = "index" /\ (selectedSourcePromptIndex < 0 \/ insertPosition < 0))
              => Starting = {} ]_vars

\* an item apart from what a copy may rename: its fields other than identifier
\* and name
Body(prompt) == [ f \in (DOMAIN prompt) \ {"identifier", "name"} |-> prompt[f] ]

Bodies(preset) == { Body(PromptsOf(preset)[i]) : i \in DOMAIN PromptsOf(preset) }

(* C23: whenever a preset, in the host or on the server, ceases to hold an    *)
(* item, another preset holds that item (under its identifier or a renamed    *)
(* one) both in the host and on the server.                                   *)
C23_NoItemLost ==
    [][ \A n \in PresetNames :
          \A b \in (Bodies(openai_settings[n]) \ Bodies(openai_settings'[n]))
                      \cup (Bodies(persisted[n]) \ Bodies(persisted'[n])) :
             \E m \in PresetNames \ {n} :
                /\ b \in Bodies(openai_settings'[m])
                /\ b \in Bodies(persisted'[m])
      ]_vars

(* C24: a save is issued under the name of the preset its payload was copied  *)
(* from (the call's target at the first await, its source at the second), and *)
(* an entry of the host is replaced only by the payload of a save issued      *)
(* under that entry's name.                                                   *)
C24_SavedUnderOwnName ==
    [][ /\ \A id \in DOMAIN ops' :
              ops'[id].saveName = (IF ops'[id].pc = "target" THEN ops'[id].target
                                   ELSE ops'[id].source)
        /\ \A n \in PresetNames :
              openai_settings'[n] # openai_settings[n] =>
                 \E id \in DOMAIN ops :
                    ops[id].saveName = n /\ ops[id].savePayload = openai_settings'[n]
      ]_vars

(* C25: when a move goes on to its second save, the source it saves is the    *)
(* host's source without the item the call copied, the one selected when it   *)
(* started (known by its identifier and its other fields), and with every     *)
(* other item in place.                                                       *)
C25_RemovesTheSelectedItem ==
    [][ \A id \in (DOMAIN ops) \cap (DOMAIN ops') :
          (ops[id].pc = "target" /\ ops'[id].pc = "source") =>
             LET before == PromptsOf(openai_settings'[ops[id].source])
                 after  == PromptsOf(ops'[id].savePayload)
                 sel    == { i \in DOMAIN before :
                               /\ before[i].identifier = ops[id].selectedIdentifier
                               /\ Body(before[i]) = Body(ops[id].promptDef) }
             IN  IF sel = {} THEN after = before
                 ELSE \E i \in sel : after = SpliceOut(before, i - 1)
      ]_vars

\* list is what the popup should show for the preset selected under name
Shows(list, name) ==
    IF name \in PresetNames THEN IsView(list, openai_settings[name])
    ELSE list = <<>>

(* C26: in the slot-addressed build, whenever no call is awaiting a save, the *)
(* source list is the ordered view of the host's preset selected as source,   *)
(* the target list that of the preset selected as target, and a list without  *)
(* a selected preset is empty.                                                *)
C26_ListsAgreeWithNames ==
    (build = "index" /\ DOMAIN ops = {}) =>
       /\ Shows(sourceOrderedPrompts, sourcePresetName)
       /\ Shows(targetOrderedPrompts, targetPresetName)

(* C27: in the slot-addressed build the selected source index is -1 or the    *)
(* index of an entry of the source list, and the insert position is -1 or a   *)
(* slot of the target list, 0 up to its length; the index is -1 after the     *)
(* source preset was changed, the position after the target preset was, and   *)
(* both after a popup was opened and after a call ended in success.           *)
C27_SelectionsValid ==
    /\ [](build = "index" =>
            /\ selectedSourcePromptIndex \in -1..(Len(sourceOrderedPrompts) - 1)
            /\ insertPosition \in -1..Len(targetOrderedPrompts))
    /\ [][ build = "index" =>
             /\ sourcePresetName' # sourcePresetName => selectedSourcePromptIndex' = -1
             /\ targetPresetName' # targetPresetName => insertPosition' = -1
             /\ container' # container =>
                   selectedSourcePromptIndex' = -1 /\ insertPosition' = -1
             /\ (Ending # {} /\ toast'.kind = "success") =>
                   selectedSourcePromptIndex' = -1 /\ insertPosition' = -1
         ]_vars

====
